---- MODULE Spec2Model ----
(***************************************************************************)
(* A model of the bulletin board of src/src/main.rs: the shared post store *)
(* (AppState.posts, a Mutex<Vec<Post>>), the listing handler homepage and  *)
(* the multipart submission handler handle_post with its upload directory. *)
(*                                                                         *)
(* Strings and byte vectors are sequences of one-character strings; an     *)
(* Option is a sequence of length 0 (None) or 1 (Some).                    *)
(***************************************************************************)
EXTENDS Naturals, Sequences, FiniteSets

(* ------------------------------ bounds -------------------------------- *)

\* number of requests in flight at once
NumReq == 3
\* largest number of uploads the requests start in all
MaxFiles == 2

Reqs == 1..NumReq

\* The requests run under one of two workloads.  Under "upload" one request
\* submits a body of arbitrary parts, file parts included, while the others
\* list; under "text" every request lists or submits a body of text parts.
\* A third workload, "single", is the start of SpecSingle: one client alone,
\* whose parts are recorded in item as the handler consumes them.
Workloads == { "upload", "text" }
Uploader == CHOOSE r \in Reqs : TRUE

(* ------------------------------ inputs -------------------------------- *)

\* bytes a part can carry: letters, a blank, a byte that is not UTF-8, and
\* "PNG", which stands for the complete stream of a PNG image
TextValues == { <<>>, <<" ">>, <<" ", "a", " ", "xFF", " ">>, <<"b">> }
FormValues == { <<" ">>, <<" ", "a", " ", "xFF", " ">> }
FileValues == { <<"PNG", "a">>, <<"a">> }

\* client-supplied filenames: directory components, stem and extension
FileNames == { [dir |-> "", stem |-> "pic", ext |-> "png"],
               [dir |-> "../", stem |-> "p", ext |-> "jpg"],
               [dir |-> "", stem |-> "a", ext |-> "exe"],
               [dir |-> "", stem |-> "x", ext |-> "bmp"] }

\* the text fields of the form, and a field the handler does not know
TextFields == { "name", "subject", "body", "" }

\* one part of the body: content disposition and accumulated bytes.  A text
\* part has no filename; the part of the file input has one when a file was
\* chosen, and no bytes when none was
TextParts == [ field_name : TextFields, filename : { <<>> }, value : TextValues ]
FileParts == [ field_name : { "file" },
               filename : { <<>> } \cup { <<f>> : f \in FileNames },
               value : FileValues \cup { <<>> } ]
Parts == TextParts \cup FileParts

\* the text parts of the "text" workload: a filled or a blank form field
FormParts == [ field_name : TextFields, filename : { <<>> }, value : FormValues ]

\* a part of a field the handler does not know that carries a file
StrayParts == [ field_name : { "avatar" },
                filename : { << [dir |-> "", stem |-> "pic", ext |-> "png"] >> },
                value : { <<"PNG", "a">> } ]

\* a file part whose filename differs from pic.png in directory and stem only
TraversalParts == [ field_name : { "file" },
                    filename : { << [dir |-> "../", stem |-> "p", ext |-> "png"] >> },
                    value : { <<"PNG", "a">> } ]

(* --------------------------- pure functions --------------------------- *)

IMAGE_UPLOAD_DIR == "./uploads/images/"

IsWhitespace(c) == c \in { " ", "\t", "\n" }

RECURSIVE TrimStart(_)
TrimStart(s) ==
  IF s # <<>> /\ IsWhitespace(Head(s)) THEN TrimStart(Tail(s)) ELSE s

RECURSIVE TrimEnd(_)
TrimEnd(s) ==
  IF s # <<>> /\ IsWhitespace(s[Len(s)])
  THEN TrimEnd(SubSeq(s, 1, Len(s) - 1))
  ELSE s

\* str::trim_start in the place of str::trim
TrimLeadingOnly(s) == TrimStart(s)

\* str::trim
Trim(s) == TrimEnd(TrimStart(s))

\* String::from_utf8_lossy: an invalid byte becomes U+FFFD
RECURSIVE FromUtf8Lossy(_)
FromUtf8Lossy(bytes) ==
  IF bytes = <<>> THEN <<>>
  ELSE << IF Head(bytes) = "xFF" THEN "FFFD" ELSE Head(bytes) >>
       \o FromUtf8Lossy(Tail(bytes))

\* mime_guess::from_path(fname).first_or_octet_stream(): by extension only
MimeGuess(fname) ==
  CASE fname.ext = "png"  -> [type |-> "image", subtype |-> "png"]
    [] fname.ext = "jpg"  -> [type |-> "image", subtype |-> "jpeg"]
    [] fname.ext = "jpeg" -> [type |-> "image", subtype |-> "jpeg"]
    [] fname.ext = "gif"  -> [type |-> "image", subtype |-> "gif"]
    [] fname.ext = "webp" -> [type |-> "image", subtype |-> "webp"]
    [] fname.ext = "bmp"  -> [type |-> "image", subtype |-> "bmp"]
    [] fname.ext = "exe"  -> [type |-> "application", subtype |-> "x-msdownload"]
    [] OTHER              -> [type |-> "application", subtype |-> "octet-stream"]

\* the matches! of line 150
AllowedSubtype(st) == st \in { "jpeg", "jpg", "png", "gif", "webp" }

\* the stream a decoder of the format named by a stored extension accepts
MagicOf(ext) ==
  CASE ext = "png"  -> "PNG"
    [] ext = "jpeg" -> "JPG"
    [] ext = "jpg"  -> "JPG"
    [] ext = "gif"  -> "GIF"
    [] ext = "webp" -> "WEBP"
    [] OTHER        -> "?"

\* image::open(path).is_ok(): the format comes from the path's extension and
\* the bytes on disk must start with a complete stream of that format
ImageOpen(d, path) ==
  \E f \in d : /\ f.path = path
               /\ f.data # <<>>
               /\ f.data[1] = MagicOf(path.file.ext)

\* std::fs::File::create: the file exists and is empty
CreateFile(d, path) ==
  { f \in d : f.path # path } \cup { [path |-> path, data |-> <<>>] }

\* what the file holds after write_all returned: everything, or a prefix
WriteFile(d, path, bytes) ==
  { f \in d : f.path # path } \cup { [path |-> path, data |-> bytes] }

\* a removal that leaves the file where it is
RemoveFileSkipped(d, path) == d

\* std::fs::remove_file
RemoveFile(d, path) == { f \in d : f.path # path }

\* the names in the upload directory
FilesOn(d) == { f.path : f \in d }

\* a generator that returns the identifier it returned before
NewV4Repeating(ctr) == ctr

\* Uuid::new_v4: an identifier no earlier call returned
NewV4(ctr) == ctr + 1

\* a store that keeps only the post it is given
PushReplacing(v, p) == << p >>

\* an insertion at the front of the vector
PushFront(v, p) == << p >> \o v

\* Vec::push
Push(v, p) == Append(v, p)

\* an iteration in the order of the vector: posts.iter()
RevForgotten(v) == v

\* posts.iter().rev()
RECURSIVE Rev(_)
Rev(v) == IF v = <<>> THEN <<>> ELSE Append(Rev(Tail(v)), Head(v))

\* html_escape::encode_safe
EncodeChar(c) ==
  CASE c = "&"  -> "&amp;"
    [] c = "<"  -> "&lt;"
    [] c = ">"  -> "&gt;"
    [] c = "\"" -> "&quot;"
    [] c = "'"  -> "&#x27;"
    [] c = "/"  -> "&#x2F;"
    [] OTHER    -> c

RECURSIVE encode_html(_)
encode_html(s) ==
  IF s = <<>> THEN <<>> ELSE << EncodeChar(Head(s)) >> \o encode_html(Tail(s))

\* the block homepage pushes to posts_html for one post
RenderPost(post) ==
  [ id |-> post.id,
    sub |-> encode_html(post.subject),
    name |-> encode_html(post.name),
    body |-> encode_html(post.body),
    image_html |-> IF post.image_url # <<>>
                   THEN << [ src |-> post.image_url[1] ] >>
                   ELSE <<>> ]

RECURSIVE RenderSeq(_)
RenderSeq(v) ==
  IF v = <<>> THEN <<>> ELSE << RenderPost(Head(v)) >> \o RenderSeq(Tail(v))

\* the loop of homepage over posts.iter().rev()
RenderAll(v) == RenderSeq(Rev(v))

\* a std::sync::Mutex can be taken when nobody holds it
NoOwner == 0
CanLock(l) == l = NoOwner

(* ------------------------------- state -------------------------------- *)

VARIABLES
  workload,   \* what the clients send
  posts,      \* AppState.posts: the Vec<Post> inside the mutex
  lock,       \* the request holding the mutex guard, or NoOwner
  disk,       \* the upload directory: a set of [path, data] files
  uuid_ctr,   \* identifiers issued so far
  pc,         \* where each request is
  post_data,  \* handle_post's PostData
  nfiles,     \* uploads started so far
  cur,        \* the file part being saved: Some([path, value, wres])
  post,       \* the Post a request built
  listing,    \* homepage's posts_html
  resp,       \* the response returned
  wrote,      \* history: files the request created
  saw,        \* history: what the parts consumed so far contained
  at_lock,    \* history: the submissions done when homepage took the lock
  appended,   \* history: identifiers in the order they were pushed
  poisoned,   \* the mutex is poisoned: a holder panicked
  item        \* history: the part a lone client sent last, and the PostData
              \* it met

vars == << workload, posts, lock, disk, uuid_ctr, pc, post_data, nfiles, cur, post,
           listing, resp, wrote, saw, at_lock, appended, poisoned, item >>

NoResp == [ status |-> 0, body |-> "" ]
Response(s, b) == [ status |-> s, body |-> b ]

\* PostData::default()
PostDataDefault == [ name |-> <<>>, subject |-> <<>>, body |-> <<>>,
                     image_path |-> <<>> ]

NoSaw == [ bad_ext |-> FALSE, io_failed |-> FALSE ]

\* the state after main has built AppState and the upload directory
Started ==
  /\ posts = <<>>
  /\ lock = NoOwner
  /\ disk = {}
  /\ uuid_ctr = 0
  /\ pc = [ r \in Reqs |-> "idle" ]
  /\ post_data = [ r \in Reqs |-> PostDataDefault ]
  /\ nfiles = 0
  /\ cur = [ r \in Reqs |-> <<>> ]
  /\ post = [ r \in Reqs |-> <<>> ]
  /\ listing = [ r \in Reqs |-> <<>> ]
  /\ resp = [ r \in Reqs |-> NoResp ]
  /\ wrote = [ r \in Reqs |-> {} ]
  /\ saw = [ r \in Reqs |-> NoSaw ]
  /\ at_lock = [ r \in Reqs |-> {} ]
  /\ appended = <<>>
  /\ poisoned = FALSE
  /\ item = <<>>

Init ==
  /\ workload \in Workloads
  /\ Started

\* one client alone, whose parts are recorded as it sends them
InitSingle ==
  /\ workload = "single"
  /\ Started

(* --------------------------- handle_post ------------------------------ *)

\* the clients that submit, and the one whose body has file parts
Submits(r) == workload = "text" \/ r = Uploader
Uploads(r) == workload \in { "upload", "single" } /\ r = Uploader
Lists(r) ==
  CASE workload = "text"   -> TRUE
    [] workload = "upload" -> r # Uploader
    [] OTHER               -> r = Uploader

\* a handler that goes on reading parts after it has returned a response
AtNextAfterReturn(r) == Submits(r) /\ pc[r] \in { "idle", "next", "done" }

\* the request is at payload.next().await
AtNext(r) == Submits(r) /\ pc[r] \in { "idle", "next" }

\* a return of the handler: the response goes out and the locals are dropped
Finish(r, status, body) ==
  /\ resp' = [ resp EXCEPT ![r] = Response(status, body) ]
  /\ pc' = [ pc EXCEPT ![r] = "done" ]
  /\ post_data' = [ post_data EXCEPT ![r] = PostDataDefault ]
  /\ cur' = [ cur EXCEPT ![r] = <<>> ]

\* the handler goes on at another place with its locals as they are
Goto(r, place) ==
  /\ pc' = [ pc EXCEPT ![r] = place ]
  /\ UNCHANGED resp

\* payload.next() yields Err: the part is malformed
PartError(r) ==
  /\ AtNext(r)
  /\ Finish(r, 400, "Invalid form data")
  /\ UNCHANGED << workload, poisoned, item, posts, lock, disk, uuid_ctr,
                  nfiles, post, listing, wrote, saw, at_lock, appended >>

\* field.next() yields Err while the bytes of a part are accumulated
ChunkError(r) ==
  /\ AtNext(r)
  /\ Finish(r, 400, "Error reading form data")
  /\ UNCHANGED << workload, poisoned, item, posts, lock, disk, uuid_ctr,
                  nfiles, post, listing, wrote, saw, at_lock, appended >>

\* the condition of line 146 without its test of the byte length
IsFileBranchByName(part) == part.field_name = "file"

\* the condition of line 146
IsFileBranch(part) == part.field_name = "file" /\ part.value # <<>>

\* a match in which the first occurrence of a field wins
SetTextFirstWins(pd, part) ==
  LET value_str == FromUtf8Lossy(part.value) IN
  CASE part.field_name = "name" /\ pd.name = <<>> ->
         [ pd EXCEPT !.name = Trim(value_str) ]
    [] part.field_name = "subject" /\ pd.subject = <<>> ->
         [ pd EXCEPT !.subject = Trim(value_str) ]
    [] part.field_name = "body" /\ pd.body = <<>> ->
         [ pd EXCEPT !.body = Trim(value_str) ]
    [] OTHER -> pd

\* a match whose default arm stores the value as the body
SetTextStray(pd, part) ==
  LET value_str == FromUtf8Lossy(part.value) IN
  CASE part.field_name = "name"    -> [ pd EXCEPT !.name = Trim(value_str) ]
    [] part.field_name = "subject" -> [ pd EXCEPT !.subject = Trim(value_str) ]
    [] part.field_name = "file"    -> pd
    [] OTHER                       -> [ pd EXCEPT !.body = Trim(value_str) ]

\* the else branch of line 181: a part that is not a non-empty file part
SetText(pd, part) ==
  LET value_str == FromUtf8Lossy(part.value) IN
  CASE part.field_name = "name"    -> [ pd EXCEPT !.name = Trim(value_str) ]
    [] part.field_name = "subject" -> [ pd EXCEPT !.subject = Trim(value_str) ]
    [] part.field_name = "body"    -> [ pd EXCEPT !.body = Trim(value_str) ]
    [] OTHER                       -> pd

\* the parts the client of a request sends
PartsOf(r) ==
  CASE workload = "single" -> Parts \cup StrayParts \cup TraversalParts
    [] Uploads(r)          -> Parts
    [] OTHER               -> FormParts

\* the record of a part the lone client sent
Consumed(r, part) ==
  IF workload = "single"
  THEN << [ part |-> part, before |-> post_data[r] ] >>
  ELSE <<>>

\* lines 131-145 and 181-189: a part that is not a non-empty file part
ReadTextPart(r) ==
  /\ AtNext(r)
  /\ \E part \in PartsOf(r) :
       /\ ~IsFileBranch(part)
       /\ post_data' = [ post_data EXCEPT ![r] = SetText(@, part) ]
       /\ item' = Consumed(r, part)
  /\ Goto(r, "next")
  /\ UNCHANGED << workload, poisoned, posts, lock, disk, uuid_ctr, nfiles,
                  cur, post, listing, wrote, saw, at_lock, appended >>

\* lines 147-149: the part has a filename that infers to an image
IsImageName(part) ==
  /\ part.filename # <<>>
  /\ MimeGuess(part.filename[1]).type = "image"

\* the filename of a part infers to an image of the allow-list
IsAllowedName(part) ==
  /\ IsImageName(part)
  /\ AllowedSubtype(MimeGuess(part.filename[1]).subtype)

\* a storage name that keeps the extension the client sent
SanitizedFilenameKeepsExt(id, fname) == [ id |-> id, ext |-> fname.ext ]

\* format!("{}.{}", unique_id, extension)
SanitizedFilename(id, fname) == [ id |-> id, ext |-> MimeGuess(fname).subtype ]

\* format!("{}{}", IMAGE_UPLOAD_DIR, sanitized_filename)
Filepath(sanitized) == [ dir |-> IMAGE_UPLOAD_DIR, file |-> sanitized ]

\* the path on disk recorded in the place of the public one
ImagePathOnDisk(sanitized) == Filepath(sanitized)

\* the public path of line 178
ImagePath(sanitized) == [ dir |-> "/uploads/images/", file |-> sanitized ]

\* lines 131-158: a non-empty file part, up to the first file operation
ReadFilePart(r) ==
  /\ AtNext(r)
  /\ \E part \in PartsOf(r) :
       /\ IsFileBranch(part)
       /\ item' = Consumed(r, part)
       /\ saw' = [ saw EXCEPT ![r].bad_ext =
                     @ \/ (part.filename # <<>> /\ ~IsAllowedName(part)) ]
       /\ IF ~IsImageName(part)
          THEN /\ Goto(r, "next")
               /\ UNCHANGED << uuid_ctr, nfiles, cur, post_data >>
          ELSE IF ~AllowedSubtype(MimeGuess(part.filename[1]).subtype)
          THEN /\ Finish(r, 400, "Unsupported image format")
               /\ UNCHANGED << uuid_ctr, nfiles >>
          ELSE /\ nfiles < MaxFiles
               /\ nfiles' = nfiles + 1
               /\ uuid_ctr' = NewV4(uuid_ctr)
               /\ cur' = [ cur EXCEPT ![r] =
                    << [ path |-> Filepath(SanitizedFilename(NewV4(uuid_ctr),
                                                             part.filename[1])),
                         value |-> part.value,
                         wres |-> "none" ] >> ]
               /\ Goto(r, "create")
               /\ UNCHANGED post_data
  /\ UNCHANGED << workload, poisoned, posts, lock, disk, post, listing,
                  wrote, at_lock, appended >>

\* line 160: web::block(File::create).await and the match on its result
CreateUpload(r) ==
  /\ pc[r] = "create"
  /\ \E ok \in BOOLEAN :
       IF ok
       THEN /\ disk' = CreateFile(disk, cur[r][1].path)
            /\ wrote' = [ wrote EXCEPT ![r] = @ \cup { cur[r][1].path } ]
            /\ Goto(r, "write")
            /\ UNCHANGED << saw, post_data, cur >>
       ELSE /\ Finish(r, 500, "Failed to save image")
            /\ saw' = [ saw EXCEPT ![r].io_failed = TRUE ]
            /\ UNCHANGED << disk, wrote >>
  /\ UNCHANGED << workload, poisoned, item, posts, lock, uuid_ctr, nfiles,
                  post, listing, at_lock, appended >>

\* the results web::block(move || f.write_all(&value)).await can have:
\* Ok(Ok(())), Ok(Err(io error)) and Err(BlockingError)
WriteResults == { "ok", "ioerr", "blockerr" }

\* what the file holds once the closure f.write_all(&value) has run: all the
\* bytes, a proper prefix of them after an I/O error, nothing if it never ran
Written(value, wres) ==
  CASE wres = "ok"    -> { value }
    [] wres = "ioerr" -> { SubSeq(value, 1, k) : k \in 0..(Len(value) - 1) }
    [] OTHER          -> { <<>> }

\* line 168: the closure f.write_all(&value) runs on the blocking pool
WriteUpload(r) ==
  /\ pc[r] = "write"
  /\ \E wres \in WriteResults :
       /\ \E data \in Written(cur[r][1].value, wres) :
            disk' = WriteFile(disk, cur[r][1].path, data)
       /\ cur' = [ cur EXCEPT ![r][1].wres = wres ]
       /\ saw' = [ saw EXCEPT ![r].io_failed = @ \/ wres = "ioerr" ]
  /\ Goto(r, "written")
  /\ UNCHANGED << workload, poisoned, item, posts, lock, uuid_ctr, post_data,
                  nfiles, post, listing, wrote, at_lock, appended >>

\* `if let Err(e) = web::block(..).await` of line 168: only the outer Err
WriteFailed(wres) == wres = "blockerr"

\* lines 168-178: what follows the write
AfterWrite(r) ==
  /\ pc[r] = "written"
  /\ IF WriteFailed(cur[r][1].wres)
     THEN /\ Finish(r, 500, "Failed to write image")
          /\ UNCHANGED disk
     ELSE IF ~ImageOpen(disk, cur[r][1].path)
     THEN /\ disk' = RemoveFile(disk, cur[r][1].path)
          /\ Finish(r, 400, "Invalid image file")
     ELSE /\ post_data' = [ post_data EXCEPT ![r].image_path =
                              << ImagePath(cur[r][1].path.file) >> ]
          /\ cur' = [ cur EXCEPT ![r] = <<>> ]
          /\ Goto(r, "next")
          /\ UNCHANGED disk
  /\ UNCHANGED << workload, poisoned, item, posts, lock, uuid_ctr, nfiles,
                  post, listing, wrote, saw, at_lock, appended >>

\* the check of line 192
MissingField(pd) == pd.name = <<>> \/ pd.subject = <<>> \/ pd.body = <<>>

\* a post built with a placeholder where no image was uploaded
BuildPostWithPlaceholder(id, pd) ==
  [ id |-> id, name |-> pd.name, subject |-> pd.subject, body |-> pd.body,
    image_url |-> IF pd.image_path = <<>>
                  THEN << [ dir |-> "/uploads/images/",
                            file |-> [ id |-> 0, ext |-> "png" ] ] >>
                  ELSE pd.image_path ]

\* lines 196-202
BuildPost(id, pd) ==
  [ id |-> id, name |-> pd.name, subject |-> pd.subject, body |-> pd.body,
    image_url |-> pd.image_path ]

\* payload.next() yields None: lines 192-202
EndOfStream(r) ==
  /\ AtNext(r)
  /\ IF MissingField(post_data[r])
     THEN /\ Finish(r, 400, "Name, Subject, and Body are required")
          /\ UNCHANGED << uuid_ctr, post >>
     ELSE /\ uuid_ctr' = NewV4(uuid_ctr)
          /\ post' = [ post EXCEPT ![r] =
                         << BuildPost(NewV4(uuid_ctr), post_data[r]) >> ]
          /\ post_data' = [ post_data EXCEPT ![r] = PostDataDefault ]
          /\ Goto(r, "lock")
          /\ UNCHANGED cur
  /\ UNCHANGED << workload, poisoned, item, posts, lock, disk, nfiles,
                  listing, wrote, saw, at_lock, appended >>

\* line 205: state.posts.lock().unwrap() on a mutex that is not poisoned
LockPosts(r) ==
  /\ pc[r] = "lock"
  /\ CanLock(lock)
  /\ ~poisoned
  /\ lock' = r
  /\ Goto(r, "push")
  /\ UNCHANGED << workload, poisoned, item, posts, disk, uuid_ctr, post_data,
                  nfiles, cur, post, listing, wrote, saw, at_lock, appended >>

\* line 206: posts.push(post)
PushPost(r) ==
  /\ pc[r] = "push"
  /\ posts' = Push(posts, post[r][1])
  /\ appended' = Append(appended, post[r][1].id)
  /\ Goto(r, "unlock")
  /\ UNCHANGED << workload, poisoned, item, lock, disk, uuid_ctr, post_data,
                  nfiles, cur, post, listing, wrote, saw, at_lock >>

\* a return that leaves the guard alive
UnlockPostsKeepsGuard(r) ==
  /\ pc[r] = "unlock"
  /\ Finish(r, 303, "")
  /\ UNCHANGED << workload, poisoned, item, posts, lock, disk, uuid_ctr,
                  nfiles, post, listing, wrote, saw, at_lock, appended >>

\* lines 207-209: the guard is dropped and the redirect returned
UnlockPosts(r) ==
  /\ pc[r] = "unlock"
  /\ lock' = NoOwner
  /\ Finish(r, 303, "")
  /\ UNCHANGED << workload, poisoned, item, posts, disk, uuid_ctr, nfiles,
                  post, listing, wrote, saw, at_lock, appended >>

(* ----------------------------- homepage ------------------------------- *)

\* the submissions that have appended, released the lock and been redirected
Redirected == { q \in Reqs : resp[q].status = 303 }

\* line 64: state.posts.lock().unwrap() on a mutex that is not poisoned
HomepageLock(r) ==
  /\ Lists(r)
  /\ pc[r] = "idle"
  /\ CanLock(lock)
  /\ ~poisoned
  /\ lock' = r
  /\ at_lock' = [ at_lock EXCEPT ![r] = Redirected ]
  /\ Goto(r, "render")
  /\ UNCHANGED << workload, poisoned, item, posts, disk, uuid_ctr, post_data,
                  nfiles, cur, post, listing, wrote, saw, appended >>

\* lines 66-90: the loop over posts.iter().rev()
HomepageRender(r) ==
  /\ pc[r] = "render"
  /\ listing' = [ listing EXCEPT ![r] = RenderAll(posts) ]
  /\ Goto(r, "respond")
  /\ UNCHANGED << workload, poisoned, item, posts, lock, disk, uuid_ctr,
                  post_data, nfiles, cur, post, wrote, saw, at_lock, appended >>

\* lines 92-114: the page is returned and the guard dropped
HomepageRespond(r) ==
  /\ pc[r] = "respond"
  /\ lock' = NoOwner
  /\ Finish(r, 200, "html")
  /\ UNCHANGED << workload, poisoned, item, posts, disk, uuid_ctr, nfiles,
                  post, listing, wrote, saw, at_lock, appended >>

(* --------------------------- specification ---------------------------- *)

Next ==
  \E r \in Reqs :
    \/ PartError(r)
    \/ ChunkError(r)
    \/ ReadTextPart(r)
    \/ ReadFilePart(r)
    \/ CreateUpload(r)
    \/ WriteUpload(r)
    \/ AfterWrite(r)
    \/ EndOfStream(r)
    \/ LockPosts(r)
    \/ PushPost(r)
    \/ UnlockPosts(r)
    \/ HomepageLock(r)
    \/ HomepageRender(r)
    \/ HomepageRespond(r)

Spec == Init /\ [][Next]_vars

\* A handler has no await between lock() and the drop of the guard, so the
\* thread that runs it goes on until the guard is dropped; a thread blocked
\* in lock() gets the mutex once the finitely many others have released it;
\* and a client that lists sends its request.  Nothing is assumed of the
\* stream of a submission or of the blocking pool: a client can stall.
LockSteps(r) ==
  \/ LockPosts(r)
  \/ PushPost(r)
  \/ UnlockPosts(r)
  \/ HomepageLock(r)
  \/ HomepageRender(r)
  \/ HomepageRespond(r)

Fairness == \A r \in Reqs : WF_vars(LockSteps(r))

SpecFair == Init /\ [][Next]_vars /\ Fairness

\* the lone client of InitSingle
SpecSingle == InitSingle /\ [][Next]_vars

(* ------------------------- a poisoned mutex --------------------------- *)

\* a panic unwinds the handler: its locals are dropped and the connection
\* is closed without a response
Unwind(r, place) ==
  /\ pc' = [ pc EXCEPT ![r] = place ]
  /\ post_data' = [ post_data EXCEPT ![r] = PostDataDefault ]
  /\ cur' = [ cur EXCEPT ![r] = <<>> ]
  /\ UNCHANGED resp

\* line 206: Vec::push panics (capacity overflow) with the guard alive; the
\* guard is dropped by the unwinding and marks the mutex poisoned
PushPanics(r) ==
  /\ pc[r] = "push"
  /\ poisoned' = TRUE
  /\ lock' = NoOwner
  /\ Unwind(r, "panicked")
  /\ UNCHANGED << workload, item, posts, disk, uuid_ctr, nfiles, post,
                  listing, wrote, saw, at_lock, appended >>

\* lines 66-90: String::push_str or format! panics with the guard alive
RenderPanics(r) ==
  /\ pc[r] = "render"
  /\ poisoned' = TRUE
  /\ lock' = NoOwner
  /\ Unwind(r, "panicked")
  /\ UNCHANGED << workload, item, posts, disk, uuid_ctr, nfiles, post,
                  listing, wrote, saw, at_lock, appended >>

\* line 205: lock() returns Err(PoisonError) and unwrap() panics
LockPoisoned(r) ==
  /\ pc[r] = "lock"
  /\ CanLock(lock)
  /\ poisoned
  /\ Unwind(r, "unwrap_panicked")
  /\ UNCHANGED << workload, poisoned, item, posts, lock, disk, uuid_ctr,
                  nfiles, post, listing, wrote, saw, at_lock, appended >>

\* line 64: lock() returns Err(PoisonError) and unwrap() panics
HomepageLockPoisoned(r) ==
  /\ Lists(r)
  /\ pc[r] = "idle"
  /\ CanLock(lock)
  /\ poisoned
  /\ Unwind(r, "unwrap_panicked")
  /\ UNCHANGED << workload, poisoned, item, posts, lock, disk, uuid_ctr,
                  nfiles, post, listing, wrote, saw, at_lock, appended >>

\* the handlers with the panics a holder of the guard can raise
NextPoison ==
  \/ Next
  \/ \E r \in Reqs :
       \/ PushPanics(r)
       \/ RenderPanics(r)
       \/ LockPoisoned(r)
       \/ HomepageLockPoisoned(r)

SpecPoison == Init /\ [][NextPoison]_vars

(* ------------------------------ claims -------------------------------- *)

\* the listing of a request has been rendered
Rendered(g) == pc[g] = "respond" \/ resp[g].status = 200

\* C1: a listing enumerates all stored posts most-recent-first: while homepage
\* holds the lock after its loop, the listing has one entry per stored post,
\* and its i-th entry is the post of the i-th last push; a listing already
\* returned is still the reverse of the pushes that preceded it.
C1_ListingMostRecentFirst ==
  \A g \in Reqs :
    Rendered(g) =>
      LET n == Len(listing[g]) IN
      /\ n <= Len(appended)
      /\ \A i \in 1..n : listing[g][i].id = appended[n + 1 - i]
      /\ pc[g] = "respond" => (n = Len(posts) /\ n = Len(appended))

\* a listing of two posts is on its way out
C1_Witness ==
  \E g \in Reqs : pc[g] = "respond" /\ Len(listing[g]) >= 2

\* the submissions that have pushed their post
Pushed == { r \in Reqs : pc[r] = "unlock" \/ resp[r].status = 303 }

\* C2: concurrent valid submissions are neither lost nor duplicated: the store
\* holds exactly one post per submission that has pushed, each submission's
\* post is in it, the identifiers are pairwise distinct, and a submission that
\* passed the checks is answered with nothing but the redirect.
C2_NoLostOrDuplicatedPost ==
  /\ Len(posts) = Cardinality(Pushed)
  /\ \A r \in Pushed : \E i \in 1..Len(posts) : posts[i] = post[r][1]
  /\ \A i, j \in 1..Len(posts) : i # j => posts[i].id # posts[j].id
  /\ \A r \in Reqs : post[r] # <<>> => resp[r].status \in { 0, 303 }

\* two valid submissions wait for the lock while a third one holds it and has
\* pushed its post
C2_Witness ==
  \E a, b, c \in Reqs :
    /\ a # b
    /\ pc[a] = "lock"
    /\ pc[b] = "lock"
    /\ pc[c] = "unlock"

\* C3: a listing whose lock acquisition follows the release of an append
\* contains that append's post, and every entry of a listing is the whole
\* post some submission built, also when appends were in flight.
C3_ListingSeesReleasedAppends ==
  \A g \in Reqs :
    Rendered(g) =>
      /\ \A q \in at_lock[g] :
           \E i \in 1..Len(listing[g]) : listing[g][i] = RenderPost(post[q][1])
      /\ \A i \in 1..Len(listing[g]) :
           \E q \in Reqs : /\ post[q] # <<>>
                           /\ listing[g][i] = RenderPost(post[q][1])

\* a listing that followed one append while another one was in flight
C3_Witness ==
  \E g \in Reqs :
    /\ pc[g] = "respond"
    /\ at_lock[g] # {}
    /\ \E q \in Reqs : pc[q] = "lock"

\* the text fields of a PostData are all set
AllFieldsSet(pd) == pd.name # <<>> /\ pd.subject # <<>> /\ pd.body # <<>>

\* the response that reports a missing text field
MissingFieldBody == "Name, Subject, and Body are required"

\* C4, in states: the post of a submission that saved no file has an empty
\* image reference, the submission is answered by the redirect alone, and
\* the listing homepage renders next shows that post first, without an image.
C4_TextPostState ==
  \A r \in Reqs :
    (post[r] # <<>> /\ wrote[r] = {}) =>
      /\ post[r][1].image_url = <<>>
      /\ resp[r].status \in { 0, 303 }
      /\ pc[r] = "done" => resp[r].status = 303
      /\ \A g \in Reqs :
           ( /\ pc[g] = "respond"
             /\ appended # <<>>
             /\ appended[Len(appended)] = post[r][1].id ) =>
               /\ listing[g][1].id = post[r][1].id
               /\ listing[g][1].image_html = <<>>

\* C4, in steps: a submission whose name, subject and body are all non-empty
\* after trimming when its body ends is not rejected: the step that ends the
\* body builds its post.
C4_TextPostStep ==
  \A r \in Reqs :
    ( /\ pc[r] \in { "idle", "next" }
      /\ AllFieldsSet(post_data[r])
      /\ pc'[r] \notin { "idle", "next", "create" }
      /\ resp'[r].body \notin { "Invalid form data", "Error reading form data",
                                "Unsupported image format" } ) =>
        /\ pc'[r] = "lock"
        /\ post'[r] # <<>>

\* C4: a submission with name, subject and body non-empty after trimming and
\* no file is answered 303, and its post is first in the next listing with an
\* empty image reference.
C4_TextOnlySubmissionAccepted ==
  /\ [] C4_TextPostState
  /\ [][C4_TextPostStep]_vars

\* a listing that shows the post of a submission without file first, above an
\* older post
C4_Witness ==
  \E r, g \in Reqs :
    /\ resp[r].status = 303
    /\ wrote[r] = {}
    /\ pc[g] = "respond"
    /\ Len(listing[g]) >= 2
    /\ listing[g][1].id = post[r][1].id

\* C5 as the spec states it: a submission rejected because name, subject or
\* body is missing, empty or blank is answered 400, appends no post and has
\* written no file to the upload directory.
C5_MissingFieldWritesNoFile ==
  \A r \in Reqs :
    resp[r].body = MissingFieldBody =>
      /\ resp[r].status = 400
      /\ r \notin Pushed
      /\ wrote[r] = {}

\* C6 as the spec states it: a submission that carried a non-empty file part
\* whose filename does not infer to an image of the allow-list is rejected
\* with 400 and appends no post (a request that another part's file
\* operation ended with 500 is set aside).
C6_DisallowedExtensionRejected ==
  \A r \in Reqs :
    saw[r].bad_ext =>
      /\ r \notin Pushed
      /\ (pc[r] = "done" /\ resp[r].status # 500) => resp[r].status = 400

\* the bytes of the upload of r on disk do not decode, and the write was not
\* reported as failed
DecodeFails(r) ==
  /\ pc[r] = "written"
  /\ cur[r][1].wres # "blockerr"
  /\ ~ImageOpen(disk, cur[r][1].path)

\* the step C7 is about: the request goes on from a write whose bytes do not
\* decode; it returns 400 with the file gone and the store as it was
C7_Step ==
  \A r \in Reqs :
    (DecodeFails(r) /\ pc'[r] # pc[r]) =>
      /\ pc'[r] = "done"
      /\ resp'[r].status = 400
      /\ cur[r][1].path \notin FilesOn(disk')
      /\ posts' = posts
      /\ post'[r] = <<>>

C8_RejectionLeavesNoFile ==
  \A r \in Reqs :
    (pc[r] = "done" /\ resp[r].status \in { 400, 500 }) =>
      wrote[r] \cap FilesOn(disk) = {}

\* C9 as the spec states it: a request whose upload file could not be created,
\* or whose write closure returned an I/O error, is answered 500 and appends
\* no post.
C9_IoFailureIs500 ==
  \A r \in Reqs :
    saw[r].io_failed =>
      /\ r \notin Pushed
      /\ pc[r] = "done" => resp[r].status = 500

\* a text that is not empty and neither starts nor ends with whitespace
Trimmed(s) ==
  /\ s # <<>>
  /\ ~IsWhitespace(s[1])
  /\ ~IsWhitespace(s[Len(s)])

\* C10: every stored post has a name, a subject and a body that are non-empty
\* and free of leading and trailing whitespace.
C10_StoredPostsAreValid ==
  \A i \in 1..Len(posts) :
    /\ Trimmed(posts[i].name)
    /\ Trimmed(posts[i].subject)
    /\ Trimmed(posts[i].body)

\* a stored post whose name arrived with blanks around it
C10_Witness ==
  \E i \in 1..Len(posts) : posts[i].name = << "a", " ", "FFFD" >>

\* C11: a post carries an image reference only if its request saved an image:
\* the reference is /uploads/images/<id>.<subtype> with the subtype in the
\* allow-list, and from the moment the post is built, so also when it is
\* appended, the file <id>.<subtype> is one the request created, is in the
\* upload directory and decodes.
C11_ImageReferenceIsAcceptedImage ==
  /\ \A r \in Reqs :
       (post[r] # <<>> /\ post[r][1].image_url # <<>>) =>
         LET url == post[r][1].image_url[1] IN
         /\ url.dir = "/uploads/images/"
         /\ AllowedSubtype(url.file.ext)
         /\ Filepath(url.file) \in wrote[r]
         /\ Filepath(url.file) \in FilesOn(disk)
         /\ ImageOpen(disk, Filepath(url.file))
  /\ \A i \in 1..Len(posts) :
       \E r \in Reqs : post[r] # <<>> /\ post[r][1] = posts[i]

\* a stored post with an image reference
C11_Witness ==
  \E i \in 1..Len(posts) : posts[i].image_url # <<>>

\* C12 as the spec states it: when a holder of the lock has panicked, the
\* store is not wedged: no later listing or submission dies at its lock
\* acquisition; each completes with a response.
C12_PoisonDoesNotWedge ==
  \A r \in Reqs : pc[r] # "unwrap_panicked"

\* the places in the store of the post request r built
PushesOf(r) ==
  IF post[r] = <<>> THEN {}
  ELSE { i \in 1..Len(appended) : appended[i] = post[r][1].id }

\* C13, in states: every stored post was pushed once by the request that
\* built it; a request answered 303 has exactly one post in the store, a
\* request that has a post in the store is answered by nothing but 303, and a
\* request that returned anything else has built and pushed none.
C13_State ==
  /\ Len(posts) = Len(appended)
  /\ \A i \in 1..Len(posts) :
       /\ posts[i].id = appended[i]
       /\ \E r \in Reqs : i \in PushesOf(r)
  /\ \A r \in Reqs :
       /\ Cardinality(PushesOf(r)) <= 1
       /\ resp[r].status = 303 => Cardinality(PushesOf(r)) = 1
       /\ PushesOf(r) # {} => /\ pc[r] \in { "unlock", "done" }
                              /\ resp[r].status \in { 0, 303 }
                              /\ pc[r] = "done" => resp[r].status = 303
       /\ (pc[r] = "done" /\ resp[r].status # 303) => post[r] = <<>>

\* C13, in steps: the store changes only by the push of one post that a
\* request built when its stream had ended; the step that rejects a request
\* leaves the store as it is; a request that has returned, or has built its
\* post, reads no further part and writes no further file.
C13_Step ==
  /\ posts' # posts =>
       \E r \in Reqs : /\ pc[r] = "push"
                       /\ post[r] # <<>>
                       /\ posts' = Append(posts, post[r][1])
  /\ \A r \in Reqs :
       /\ (resp[r].status = 0 /\ resp'[r].status \in { 400, 500 }) =>
            (posts' = posts /\ pc'[r] = "done")
       /\ pc[r] = "done" =>
            /\ pc'[r] = "done"
            /\ resp'[r] = resp[r]
            /\ post_data'[r] = post_data[r]
            /\ wrote'[r] = wrote[r]
            /\ cur'[r] = cur[r]
       /\ post[r] # <<>> =>
            /\ post'[r] = post[r]
            /\ post_data'[r] = post_data[r]
            /\ wrote'[r] = wrote[r]
            /\ pc'[r] \in { "lock", "push", "unlock", "done" }

\* C13: the store is modified only by a single push after the whole stream
\* was consumed and all checks passed; a request is answered 303 if and only
\* if it appended exactly one post; a rejected request leaves the store as
\* it was and processes no part after the failing one.
C13_StoreChangedOnlyByOnePush ==
  /\ [] C13_State
  /\ [][C13_Step]_vars

\* one request was redirected, another one rejected, and the store holds the
\* one post of the first
C13_Witness ==
  \E r, q \in Reqs :
    /\ resp[r].status = 303
    /\ resp[q].status = 400
    /\ Len(posts) = 1

\* the text fields of the form
Fields == { "name", "subject", "body" }

\* the text a text part carries: decoded and trimmed
TextOf(part) == Trim(FromUtf8Lossy(part.value))

\* C14: when a text field occurs again, the last occurrence wins: right after
\* a part of a text field was read, that field of the PostData is the
\* trimmed text of the part, whatever it held before, and the other fields
\* are as they were; the post built when the stream ends there stores these
\* values; and when the trimmed text is empty no post is built and the
\* request ends with 400, also when the field was non-empty before.
C14_LastOccurrenceWins ==
  (item # <<>> /\ item[1].part.field_name \in Fields) =>
    LET f == item[1].part.field_name
        now == [ item[1].before EXCEPT ![f] = TextOf(item[1].part) ]
    IN /\ pc[Uploader] = "next" =>
            \A g \in Fields : post_data[Uploader][g] = now[g]
       /\ post[Uploader] # <<>> =>
            \A g \in Fields : post[Uploader][1][g] = now[g]
       /\ TextOf(item[1].part) = <<>> =>
            /\ post[Uploader] = <<>>
            /\ pc[Uploader] \in { "next", "done" }
            /\ pc[Uploader] = "done" => resp[Uploader].status = 400

\* a request redirected after its last part gave the name a second value,
\* which is the one stored
C14_Witness ==
  /\ resp[Uploader].status = 303
  /\ item # <<>>
  /\ item[1].part.field_name = "name"
  /\ item[1].before.name = << "b" >>
  /\ Len(posts) = 1
  /\ posts[1].name = << "a", " ", "FFFD" >>

\* a request rejected for a missing field after its last part gave a blank
\* value to a name that was filled, with subject and body filled
C14_WitnessBlank ==
  /\ resp[Uploader].body = MissingFieldBody
  /\ item # <<>>
  /\ item[1].part.field_name = "name"
  /\ item[1].part.value = << " " >>
  /\ AllFieldsSet(item[1].before)

\* the step of the lone client reads a part: it leaves payload.next() for the
\* next part, for a file operation or for the rejection of the extension
IsRead ==
  /\ pc[Uploader] \in { "idle", "next" }
  /\ item' # <<>>
  /\ \/ pc'[Uploader] \in { "next", "create" }
     \/ resp'[Uploader].body = "Unsupported image format"

\* the step leaves everything of the request and of the server as it is,
\* except that the request waits for its next part
OnlySkips ==
  /\ pc'[Uploader] = "next"
  /\ UNCHANGED << posts, lock, disk, uuid_ctr, post_data, nfiles, cur, post,
                  resp, wrote >>

\* the step reads a part of a field that is none of name, subject, body, file
C15_Step ==
  (IsRead /\ item'[1].part.field_name \notin Fields \cup { "file" }) =>
    OnlySkips

\* C15: a well-formed part with an unknown field name is ignored: the step
\* that reads it changes nothing but the position in the stream, so a
\* request with such parts inserted goes through the states of the request
\* without them and ends with the same status, post and files.
C15_UnknownPartsIgnored == [][C15_Step]_vars

\* a request redirected after an unknown part that carried an image as its
\* last part, with no file written
C15_Witness ==
  /\ resp[Uploader].status = 303
  /\ item # <<>>
  /\ item[1].part \in StrayParts
  /\ wrote[Uploader] = {}
  /\ disk = {}

\* the step reads a file part with no filename or with no bytes
C16_Step ==
  ( /\ IsRead
    /\ item'[1].part.field_name = "file"
    /\ (item'[1].part.filename = <<>> \/ item'[1].part.value = <<>>) ) =>
      OnlySkips

\* C16: a file part with no filename or with zero bytes creates no file, sets
\* no image reference, causes no rejection and alters no text field, and the
\* request goes on with the following part.
C16_EmptyFilePartSkipped == [][C16_Step]_vars

\* a request that sent a file part with a filename and no bytes last and whose
\* post was stored without an image
C16_Witness ==
  /\ resp[Uploader].status = 303
  /\ item # <<>>
  /\ item[1].part.field_name = "file"
  /\ item[1].part.filename # <<>>
  /\ item[1].part.value = <<>>
  /\ posts[1].image_url = <<>>
  /\ disk = {}

\* C17: the path an upload is saved under is the fixed upload directory with
\* <id>.<subtype>, where the id is the one just issued and the subtype the
\* one inferred from the extension of the client's filename; nothing else of
\* that filename enters it, and no file was created under that path before.
C17_StorageNameFromIdAndSubtype ==
  pc[Uploader] = "create" =>
    LET path == cur[Uploader][1].path
        fname == item[1].part.filename[1]
    IN /\ path.dir = "./uploads/images/"
       /\ path.file.id = uuid_ctr
       /\ path.file.ext = MimeGuess(fname).subtype
       /\ path \notin wrote[Uploader]
       /\ path \notin FilesOn(disk)
       /\ \A f \in disk : f.path.file.id < path.file.id

\* the second upload of a request, sent as ../p.png, is about to be created
C17_Witness ==
  /\ pc[Uploader] = "create"
  /\ item[1].part \in TraversalParts
  /\ wrote[Uploader] # {}
  /\ FilesOn(disk) # {}

\* where a handler holds the guard, and where it is suspended
Critical == { "push", "unlock", "render", "respond" }
Suspended == { "next", "create", "write", "written" }

\* the request is blocked in lock() or holds the guard (under "upload" a
\* request other than the uploading one does nothing but list), and the
\* response that ends it
WantsLock(r) ==
  \/ pc[r] \in { "lock" } \cup Critical
  \/ workload = "upload" /\ r # Uploader /\ pc[r] = "idle"
Served(r) ==
  /\ pc[r] = "done"
  /\ resp[r].status = IF post[r] # <<>> THEN 303 ELSE 200

\* C18, in states: the guard is held exactly in the critical sections, so
\* never by a request suspended at a stream read or a file operation.
C18_State ==
  \A r \in Reqs :
    /\ lock = r <=> pc[r] \in Critical
    /\ pc[r] \in Suspended => lock # r

\* C18, in steps: the lock is taken only when free, for the push or for the
\* render loop; the holder goes from there to the drop of the guard and its
\* response without passing a suspension point; and a request that wants the
\* lock wants it until it is served.
C18_Step ==
  /\ lock' # lock =>
       \/ /\ lock = NoOwner
          /\ pc'[lock'] \in { "push", "render" }
       \/ /\ lock' = NoOwner
          /\ pc[lock] \in { "unlock", "respond" }
          /\ pc'[lock] = "done"
  /\ \A r \in Reqs :
       /\ pc[r] \in Critical => pc'[r] \in Critical \cup { "done" }
       /\ WantsLock(r) => (WantsLock(r)' \/ Served(r)')

\* C18: the lock is never held across a suspension point; it is taken only
\* for the push and for the render loop and released in the same run of the
\* handler; and, whatever the submitting clients do or fail to do, every
\* request that attempts to take the lock is served: it stops wanting the
\* lock, which by C18_Step it does only by returning its response.
C18_LockNeverHeldAcrossAwait ==
  /\ [] C18_State
  /\ [][C18_Step]_vars
  /\ \A r \in Reqs : []<>(~WantsLock(r))

\* while the submitting client is in the middle of an upload, one listing
\* has been answered and another one holds the lock
C18_Witness ==
  /\ pc[Uploader] = "write"
  /\ \E g, h \in Reqs : /\ resp[g].status = 200
                         /\ lock = h
                         /\ pc[h] = "render"

\* a is the tail of b
IsSuffix(a, b) ==
  /\ Len(a) <= Len(b)
  /\ \A i \in 1..Len(a) : a[i] = b[Len(b) - Len(a) + i]

\* C19, in steps: a step leaves every stored post where and as it is: the
\* store before the step is a prefix of the store after it.
C19_Step ==
  /\ Len(posts') >= Len(posts)
  /\ \A i \in 1..Len(posts) : posts'[i] = posts[i]

\* C19, in states: a listing that was rendered is the tail of the listing of
\* the store as it is now, and of two listings the shorter is the tail of
\* the longer.
C19_State ==
  \A g \in Reqs :
    Rendered(g) =>
      /\ IsSuffix(listing[g], RenderAll(posts))
      /\ \A h \in Reqs :
           (Rendered(h) /\ Len(listing[g]) <= Len(listing[h])) =>
             IsSuffix(listing[g], listing[h])

\* C19: the store is append-only: its contents at an earlier state are a
\* prefix of its contents at any later state, and an earlier listing is a
\* suffix of any later listing.
C19_StoreAppendOnly ==
  /\ [][C19_Step]_vars
  /\ [] C19_State

\* a listing of one post was returned and the store has got a second post
\* since
C19_Witness ==
  \E g \in Reqs :
    /\ resp[g].status = 200
    /\ Len(listing[g]) = 1
    /\ Len(posts) = 2

\* C20 as the spec states it: after a submission answered 303, every file
\* the request wrote to the upload directory is the one its post refers to.
C20_RedirectLeavesNoOrphan ==
  \A r \in Reqs :
    resp[r].status = 303 =>
      \A path \in wrote[r] \cap FilesOn(disk) :
        post[r][1].image_url =
          << [ dir |-> "/uploads/images/", file |-> path.file ] >>

====
